---- MODULE Spec2Model ----
(***************************************************************************)
(* A model of TidalSearch (src/src/tidal/tidalsearch.cpp): the delayed     *)
(* search timers, the table of searches pending at the Tidal service, the  *)
(* result emission and the album art requests.  Every handler runs to      *)
(* completion on the one Qt event loop, so each handler is one action.     *)
(*                                                                         *)
(* What the model takes from outside the file:                             *)
(*  - DoSearchAsync is a slot wired to the signal SearchAsyncSig, so it    *)
(*    can run again for an id SearchAsync has already handed out; that is  *)
(*    how one origin comes to have several timers and several calls at    *)
(*    the service, the case MaybeSearchFinished scans the table for.       *)
(*  - startTimer returns the lowest id no running timer has; the service   *)
(*    and the cover loader number their calls 1, 2, 3, ...                 *)
(*  - PendingState (tidalsearch.h) compares by orig_id_ and its default    *)
(*    origin is -1.                                                        *)
(*  - ArtLoadedSlot is wired to ArtLoaded(int, QImage), which nothing in   *)
(*    the file emits (HandleLoadedArt emits the QPixmap overload), so it   *)
(*    is not among the actions.                                            *)
(***************************************************************************)
EXTENDS Integers, Sequences, FiniteSets, TLC

(***************************************************************************)
(* Bounds of the model.                                                    *)
(***************************************************************************)
\* Calls of the public SearchAsync(query, searchby).
MaxSearches == 2
\* Executions of the slot DoSearchAsync (those of SearchAsync included).
MaxSchedules == 2
\* Songs a reply may carry beyond kMaxResultsPerEmission.
MaxExtraResults == 1
\* Calls of LoadArtAsync.
MaxArtRequests == 3
\* Characters of a query given to TokenizeQuery.
MaxQueryLen == 2

(***************************************************************************)
(* Program constants.                                                      *)
(***************************************************************************)
kMaxResultsPerEmission == 1000

\* PendingState(): the origin of a default-constructed PendingState, which
\* QMap::take returns for a key that is not in the map.
DefaultOrigId == -1

\* A null QString: Result::pixmap_cache_key_ before ResultsAvailableSlot.
NullString == <<>>

(***************************************************************************)
(* Input domains.                                                          *)
(***************************************************************************)
Origins == 1..MaxSearches
TimerIds == 1..MaxSchedules
ServiceIds == 1..MaxSchedules
\* The cover loader serves the whole application: its last id here is never
\* one of this object's requests.
LoaderIds == 1..(MaxArtRequests + 1)
ArtIds == 1..MaxArtRequests

\* Strings are sequences of characters.
Queries == { <<"a">>, <<"f", ":", "a", " ", "(", "b", ")">> }
SearchBys == { "songs", "albums" }
FirstQuery == { <<"a">> }
FirstSearchBy == { "songs" }

\* Every query of at most MaxQueryLen characters, for the tokenizer.
TokenAlphabet == { "a", " ", ":" }
TokenQueries == UNION { [1..n -> TokenAlphabet] : n \in 0..MaxQueryLen }

\* A Song: its url identifies the track, the title is other metadata.
Songs == { [url |-> "u1", title |-> "t1"],
           [url |-> "u1", title |-> "t2"],
           [url |-> "u2", title |-> "t3"] }
SongOf(i) ==
  IF i % 3 = 0 THEN [url |-> "u1", title |-> "t1"]
  ELSE IF i % 3 = 1 THEN [url |-> "u1", title |-> "t2"]
  ELSE [url |-> "u2", title |-> "t3"]

\* The SongList of n songs whose i-th song is SongOf(i + k).
MkSongs(n, k) == [i \in 1..n |-> SongOf(i + k)]

SmallSongLists == { MkSongs(0, 0), MkSongs(2, 0) }
BigSongLists ==
  { MkSongs(n, 0) :
      n \in {0, 1} \cup ((kMaxResultsPerEmission - 1)..(kMaxResultsPerEmission + MaxExtraResults)) }

Images == { "imgA", "imgB" }

\* The Results a caller holds: those AddResults delivered, cache key set.
ArtResults ==
  { [metadata_ |-> song, pixmap_cache_key_ |-> <<"tidal:", song.url>>] : song \in Songs }

(***************************************************************************)
(* QMap helpers.                                                           *)
(***************************************************************************)
EmptyMap == <<>>
MapPut(m, k, v) == [x \in (DOMAIN m) \cup {k} |-> IF x = k THEN v ELSE m[x]]
MapRemove(m, k) == [x \in (DOMAIN m) \ {k} |-> m[x]]
Min(a, b) == IF a < b THEN a ELSE b
SetMin(S) == CHOOSE x \in S : \A y \in S : x <= y

(***************************************************************************)
(* TokenizeQuery                                                           *)
(***************************************************************************)
IsSpace(c) == c \in {" ", "\t", "\n"}

RECURSIVE SkipSpaces(_, _)
SkipSpaces(s, i) ==
  IF i <= Len(s) /\ IsSpace(s[i]) THEN SkipSpaces(s, i + 1) ELSE i

\* QString::split(QRegExp("\\s+")) with the default KeepEmptyParts.
RECURSIVE SplitFrom(_, _, _)
SplitFrom(s, i, cur) ==
  IF i > Len(s) THEN <<cur>>
  ELSE IF IsSpace(s[i]) THEN <<cur>> \o SplitFrom(s, SkipSpaces(s, i), <<>>)
  ELSE SplitFrom(s, i + 1, Append(cur, s[i]))

Split(s) == SplitFrom(s, 1, <<>>)

RemoveChar(s, c) == SelectSeq(s, LAMBDA x : x # c)

\* QString::indexOf(":"), 1-based here; 0 when absent (-1 in Qt).
IndexOfColon(s) ==
  IF \E i \in 1..Len(s) : s[i] = ":"
  THEN SetMin({ i \in 1..Len(s) : s[i] = ":" })
  ELSE 0

CleanToken(t) ==
  LET u == RemoveChar(RemoveChar(RemoveChar(t, "("), ")"), "\"")
      colon == IndexOfColon(u)
  IN IF colon # 0 THEN SubSeq(u, colon + 1, Len(u)) ELSE u

TokenizeQuery(query) ==
  LET tokens == Split(query)
  IN [i \in 1..Len(tokens) |-> CleanToken(tokens[i])]

(***************************************************************************)
(* State.                                                                  *)
(***************************************************************************)
VARIABLES
  searches_next_id_,      \* int
  art_searches_next_id_,  \* int
  delayed_searches_,      \* QMap<int, DelayedSearch>: timer id -> search
  pending_searches_,      \* QMap<int, PendingState>: service id -> state
  pending_art_searches_,  \* QMap<int, QString>: art id -> cache key
  cover_loader_tasks_,    \* QMap<quint64, int>: loader id -> art id
  pixmap_cache_,          \* cache key -> pixmap
  \* The collaborators' state.
  next_service_id,        \* the id the service gives its next Search call
  outstanding,            \* service id -> origin: Search calls awaiting a reply
  next_loader_id,         \* the id the cover loader gives this object's next request
  loader_outstanding,     \* loader id -> art id: LoadImageAsync calls awaiting a reply
  \* What the last handler did.
  event,                  \* the handler, and whether it knew the id it was given
  emitted,                \* the signals it emitted, in order
  \* The record of the run.
  returned_ids,           \* the ids SearchAsync returned, in order
  last_request,           \* origin -> the last <<query, searchby>> scheduled
  n_schedules,            \* executions of DoSearchAsync
  in_burst,               \* origin -> every request after the first came while a timer ran
  cancelled,              \* origins cancelled while delayed and not scheduled since
  backend_calls,          \* origin -> the <<query, searchby>> sent to the service, in order
  finished_count,         \* origin -> SearchFinished signals emitted
  returned_art_ids,       \* the ids LoadArtAsync returned, in order
  art_key,                \* art id -> the cache key it was requested for
  art_overlap,            \* pairs of art ids pending together under one cache key
  art_loaded_count,       \* art id -> ArtLoaded signals emitted
  last_loaded             \* cache key -> the image of the last reply to a request for it

searchVars == <<searches_next_id_, delayed_searches_, pending_searches_,
                next_service_id, outstanding,
                returned_ids, last_request, n_schedules, in_burst, cancelled,
                backend_calls, finished_count>>
artVars == <<art_searches_next_id_, pending_art_searches_, cover_loader_tasks_,
             pixmap_cache_, next_loader_id, loader_outstanding, returned_art_ids,
             art_key, art_overlap, art_loaded_count, last_loaded>>
vars == <<searchVars, artVars, event, emitted>>

Event(op, known) == [op |-> op, known |-> known]
Signal(sig, id, arg) == [sig |-> sig, id |-> id, arg |-> arg]

(***************************************************************************)
(* TidalSearch::TidalSearch                                                *)
(***************************************************************************)
Init ==
  /\ searches_next_id_ = 1
  /\ art_searches_next_id_ = 1
  /\ delayed_searches_ = EmptyMap
  /\ pending_searches_ = EmptyMap
  /\ pending_art_searches_ = EmptyMap
  /\ cover_loader_tasks_ = EmptyMap
  /\ pixmap_cache_ = EmptyMap
  /\ next_service_id = 1
  /\ outstanding = EmptyMap
  /\ next_loader_id = 1
  /\ loader_outstanding = EmptyMap
  /\ event = Event("TidalSearch", TRUE)
  /\ emitted = <<>>
  /\ returned_ids = <<>>
  /\ last_request = EmptyMap
  /\ n_schedules = 0
  /\ in_burst = EmptyMap
  /\ cancelled = {}
  /\ backend_calls = [o \in Origins |-> <<>>]
  /\ finished_count = [o \in Origins |-> 0]
  /\ returned_art_ids = <<>>
  /\ art_key = EmptyMap
  /\ art_overlap = {}
  /\ art_loaded_count = [a \in ArtIds |-> 0]
  /\ last_loaded = EmptyMap

(***************************************************************************)
(* SearchAsync / DoSearchAsync                                             *)
(***************************************************************************)
DelayedSearch(id, query, searchby) ==
  [id_ |-> id, query_ |-> query, searchby_ |-> searchby]

PendingState(orig_id, tokens) == [orig_id_ |-> orig_id, tokens_ |-> tokens]

\* The timers of id that are still running.
TimersOf(id) == { t \in DOMAIN delayed_searches_ : delayed_searches_[t].id_ = id }

\* startTimer returns an id no running timer of the object has: the lowest.
FreeTimerIds == { SetMin(TimerIds \ DOMAIN delayed_searches_) }

\* A SearchAsync that hands out the id again: searches_next_id_ not incremented.
NextSearchIdStuck(n) == n

\* searches_next_id_++
NextSearchId(n) == n + 1

\* A DoSearchAsync that stores the id and the searchby but not the query.
StartDelayedSearchDropsQuery(delayed, timer_id, id, query, searchby) ==
  MapPut(delayed, timer_id, [id_ |-> id, query_ |-> NullString, searchby_ |-> searchby])

\* delayed_searches_[timer_id] = {id, query, searchby}
StartDelayedSearch(delayed, timer_id, id, query, searchby) ==
  MapPut(delayed, timer_id, DelayedSearch(id, query, searchby))

\* The body of the slot DoSearchAsync, with the timer id startTimer returned.
DoSearchAsyncBody(timer_id, id, query, searchby) ==
  /\ delayed_searches_' =
       StartDelayedSearch(delayed_searches_, timer_id, id, query, searchby)
  /\ n_schedules' = n_schedules + 1
  /\ last_request' = MapPut(last_request, id, <<query, searchby>>)
  /\ in_burst' = MapPut(in_burst, id,
                        IF id \in DOMAIN in_burst
                        THEN in_burst[id] /\ TimersOf(id) # {}
                        ELSE TRUE)
  /\ cancelled' = cancelled \ {id}
  /\ emitted' = <<>>

\* int SearchAsync(query, searchby): a fresh id, and SearchAsyncSig runs the slot.
SearchAsync(query, searchby) ==
  /\ Len(returned_ids) < MaxSearches
  /\ n_schedules < MaxSchedules
  /\ LET id == searches_next_id_
     IN /\ searches_next_id_' = NextSearchId(searches_next_id_)
        /\ \E timer_id \in FreeTimerIds :
             DoSearchAsyncBody(timer_id, id, query, searchby)
        /\ returned_ids' = Append(returned_ids, id)
        /\ event' = Event("SearchAsync", TRUE)
  /\ UNCHANGED <<pending_searches_, outstanding, next_service_id, backend_calls,
                 finished_count>>
  /\ UNCHANGED artVars

\* The slot DoSearchAsync run again for an id SearchAsync has handed out.
DoSearchAsync(id, query, searchby) ==
  /\ id \in 1..(searches_next_id_ - 1)
  /\ n_schedules < MaxSchedules
  /\ \E timer_id \in FreeTimerIds :
       DoSearchAsyncBody(timer_id, id, query, searchby)
  /\ event' = Event("DoSearchAsync", TimersOf(id) # {})
  /\ UNCHANGED <<searches_next_id_, returned_ids, pending_searches_, outstanding,
                 next_service_id, backend_calls, finished_count>>
  /\ UNCHANGED artVars

(***************************************************************************)
(* CancelSearch                                                            *)
(***************************************************************************)
\* A loop that erases the entry it stops at, match or not.
CancelTimersFirst(delayed, id) ==
  IF DOMAIN delayed = {} THEN delayed ELSE MapRemove(delayed, SetMin(DOMAIN delayed))

\* The loop erases the first entry, in key order, whose id_ is id.
CancelTimers(delayed, id) ==
  LET hits == { t \in DOMAIN delayed : delayed[t].id_ = id }
  IN IF hits = {} THEN delayed ELSE MapRemove(delayed, SetMin(hits))

CancelSearch(id) ==
  /\ delayed_searches_' = CancelTimers(delayed_searches_, id)
  /\ cancelled' = IF TimersOf(id) # {} THEN cancelled \cup {id} ELSE cancelled
  /\ event' = Event("CancelSearch", TimersOf(id) # {})
  /\ emitted' = <<>>
  /\ UNCHANGED <<searches_next_id_, pending_searches_, outstanding, next_service_id,
                 returned_ids,
                 last_request, n_schedules, in_burst, backend_calls, finished_count>>
  /\ UNCHANGED artVars

(***************************************************************************)
(* timerEvent and void SearchAsync(id, query, searchby)                    *)
(***************************************************************************)
\* pending_searches_[service_id] = PendingState(id, TokenizeQuery(query))
RecordPending(pending, service_id, id, query) ==
  MapPut(pending, service_id, PendingState(id, TokenizeQuery(query)))

\* service_->Search returns the service's next id: it counts its calls.
FreeServiceIds == { next_service_id }

timerEvent(timer_id) ==
  \/ /\ timer_id \in DOMAIN delayed_searches_
     /\ LET d == delayed_searches_[timer_id]
        IN \E service_id \in FreeServiceIds :
             /\ pending_searches_' =
                  RecordPending(pending_searches_, service_id, d.id_, d.query_)
             /\ outstanding' = MapPut(outstanding, service_id, d.id_)
             /\ next_service_id' = next_service_id + 1
             /\ backend_calls' =
                  [backend_calls EXCEPT ![d.id_] = Append(@, <<d.query_, d.searchby_>>)]
             /\ event' = Event("timerEvent", TRUE)
     /\ delayed_searches_' = MapRemove(delayed_searches_, timer_id)
     /\ emitted' = <<>>
     /\ UNCHANGED <<searches_next_id_, returned_ids, last_request, n_schedules,
                    in_burst, cancelled, finished_count>>
     /\ UNCHANGED artVars
  \/ /\ timer_id \notin DOMAIN delayed_searches_
     \* QObject::timerEvent(e)
     /\ event' = Event("timerEvent", FALSE)
     /\ emitted' = <<>>
     /\ UNCHANGED searchVars
     /\ UNCHANGED artVars

(***************************************************************************)
(* ResultsAvailableSlot, PixmapCacheKey                                    *)
(***************************************************************************)
\* "tidal:" % result.metadata_.url().toString()
PixmapCacheKey(result) == <<"tidal:", result.metadata_.url>>

\* A slot that forgets to cut the list.
TruncateNothing(results) == results

\* The entries that survive results.erase(begin + kMaxResultsPerEmission, end).
Truncate(results) ==
  IF Len(results) > kMaxResultsPerEmission
  THEN SubSeq(results, 1, kMaxResultsPerEmission)
  ELSE results

\* A slot without the isEmpty() test.
ResultsAvailableSlotNoEmptyTest(id, results) ==
  << Signal("AddResults", id,
            [i \in 1..Len(Truncate(results)) |->
               [Truncate(results)[i] EXCEPT
                  !.pixmap_cache_key_ = PixmapCacheKey(Truncate(results)[i])]]) >>

\* The signals the slot emits.
ResultsAvailableSlot(id, results) ==
  IF results = <<>> THEN <<>>
  ELSE LET kept == Truncate(results)
       IN << Signal("AddResults", id,
                    [i \in 1..Len(kept) |->
                       [kept[i] EXCEPT !.pixmap_cache_key_ = PixmapCacheKey(kept[i])]]) >>

(***************************************************************************)
(* SearchDone, HandleError, MaybeSearchFinished                            *)
(***************************************************************************)
\* PendingState::operator==
PendingStateEq(a, b) == a.orig_id_ = b.orig_id_

\* QMap::keys(value)
KeysOf(m, value) == { k \in DOMAIN m : PendingStateEq(m[k], value) }

\* QMap::take(key): the value, or a default-constructed one.
TakeValue(m, key) ==
  IF key \in DOMAIN m THEN m[key] ELSE PendingState(DefaultOrigId, <<>>)

\* A MaybeSearchFinished with the test the wrong way round.
MaybeSearchFinishedInverted(id, pending) ==
  IF { k \in DOMAIN pending : pending[k].orig_id_ = id } # {}
  THEN << Signal("SearchFinished", id, <<>>) >>
  ELSE <<>>

\* A MaybeSearchFinished that does not look at the table.
MaybeSearchFinishedAlways(id, pending) == << Signal("SearchFinished", id, <<>>) >>

\* The signals MaybeSearchFinished(id) emits with the table as it is then.
MaybeSearchFinished(id, pending) ==
  IF KeysOf(pending, PendingState(id, <<>>)) = {}
  THEN << Signal("SearchFinished", id, <<>>) >>
  ELSE <<>>

\* The SearchFinished signals for origin o among sigs.
CountFinished(sigs, o) ==
  Cardinality({ i \in 1..Len(sigs) : sigs[i].sig = "SearchFinished" /\ sigs[i].id = o })

\* The table after pending_searches_.take(service_id).
TakePending(pending, service_id) == MapRemove(pending, service_id)

SearchDone(service_id, songs) ==
  LET state == TakeValue(pending_searches_, service_id)
      search_id == state.orig_id_
      ret == [i \in 1..Len(songs) |->
                [metadata_ |-> songs[i], pixmap_cache_key_ |-> NullString]]
      after == TakePending(pending_searches_, service_id)
      sigs == << Signal("ResultsAvailable", search_id, ret) >>
                \o ResultsAvailableSlot(search_id, ret)
                \o MaybeSearchFinished(search_id, after)
  IN /\ pending_searches_' = after
     /\ emitted' = sigs
     /\ finished_count' =
          [o \in Origins |-> finished_count[o] + CountFinished(sigs, o)]
     /\ outstanding' = MapRemove(outstanding, service_id)
     /\ event' = Event("SearchDone", service_id \in DOMAIN pending_searches_)
     /\ UNCHANGED <<searches_next_id_, delayed_searches_, next_service_id, returned_ids,
                    last_request,
                    n_schedules, in_burst, cancelled, backend_calls>>
     /\ UNCHANGED artVars

\* The id the SearchError signal carries to the caller.
ErrorSignalId(pending, id) == id

\* The table after the error reply for service id `id`.
ErrorPending(pending, id) == pending

HandleError(id, error) ==
  /\ emitted' = << Signal("SearchError", ErrorSignalId(pending_searches_, id), error) >>
  /\ pending_searches_' = ErrorPending(pending_searches_, id)
  /\ outstanding' = MapRemove(outstanding, id)
  /\ event' = Event("HandleError", id \in DOMAIN pending_searches_)
  /\ UNCHANGED <<searches_next_id_, delayed_searches_, next_service_id, returned_ids,
                    last_request,
                 n_schedules, in_burst, cancelled, backend_calls, finished_count>>
  /\ UNCHANGED artVars

Errors == { "error" }

(***************************************************************************)
(* The search side of the object.                                          *)
(***************************************************************************)
\* The service answers each Search call once, with its results or an error.
SearchNext ==
  \/ \E q \in Queries, sb \in SearchBys : SearchAsync(q, sb)
  \/ \E id \in Origins, q \in Queries, sb \in SearchBys : DoSearchAsync(id, q, sb)
  \/ \E id \in Origins : CancelSearch(id)
  \/ \E t \in TimerIds : timerEvent(t)
  \/ \E sid \in DOMAIN outstanding, songs \in SmallSongLists : SearchDone(sid, songs)
  \/ \E sid \in DOMAIN outstanding, e \in Errors : HandleError(sid, e)

SearchSpec == Init /\ [][SearchNext]_vars

\* The service may also repeat a reply, or answer a call this object never made.
StaleNext ==
  \/ \E q \in Queries, sb \in SearchBys : SearchAsync(q, sb)
  \/ \E id \in Origins, q \in Queries, sb \in SearchBys : DoSearchAsync(id, q, sb)
  \/ \E id \in Origins : CancelSearch(id)
  \/ \E t \in TimerIds : timerEvent(t)
  \/ \E sid \in ServiceIds, songs \in SmallSongLists : SearchDone(sid, songs)
  \/ \E sid \in ServiceIds, e \in Errors : HandleError(sid, e)

StaleSpec == Init /\ [][StaleNext]_vars

\* Replies of every size around kMaxResultsPerEmission, to searches of one query.
ResultsNext ==
  \/ \E q \in FirstQuery, sb \in FirstSearchBy : SearchAsync(q, sb)
  \/ \E t \in TimerIds : timerEvent(t)
  \/ \E sid \in DOMAIN outstanding, songs \in BigSongLists : SearchDone(sid, songs)
  \/ \E sid \in DOMAIN outstanding, e \in Errors : HandleError(sid, e)

ResultsSpec == Init /\ [][ResultsNext]_vars

\* The object as its public interface drives it: every search is a call of
\* SearchAsync(query, searchby).  A running timer expires: startTimer timers
\* are served by the event loop.
PublicNext ==
  \/ \E q \in Queries, sb \in SearchBys : SearchAsync(q, sb)
  \/ \E id \in Origins : CancelSearch(id)
  \/ \E t \in TimerIds : timerEvent(t)
  \/ \E sid \in DOMAIN outstanding, songs \in SmallSongLists : SearchDone(sid, songs)
  \/ \E sid \in DOMAIN outstanding, e \in Errors : HandleError(sid, e)

PublicSpec ==
  Init /\ [][PublicNext]_vars /\ \A t \in TimerIds : WF_vars(timerEvent(t))

\* Searches of every short query, to see what TokenizeQuery records.
TokenNext ==
  \/ \E q \in TokenQueries, sb \in FirstSearchBy : SearchAsync(q, sb)
  \/ \E t \in TimerIds : timerEvent(t)
  \/ \E sid \in DOMAIN outstanding, songs \in SmallSongLists : SearchDone(sid, songs)
  \/ \E sid \in DOMAIN outstanding, e \in Errors : HandleError(sid, e)

TokenSpec == Init /\ [][TokenNext]_vars

(***************************************************************************)
(* LoadArtAsync, AlbumArtLoaded, HandleLoadedArt                           *)
(***************************************************************************)
\* A LoadArtAsync that hands out the id again.
NextArtIdStuck(n) == n

\* art_searches_next_id_++
NextArtId(n) == n + 1

\* QPixmap::fromImage(image)
PixmapFromImage(image) == [pixmap_of |-> image]

LoadArtAsync(result) ==
  /\ Len(returned_art_ids) < MaxArtRequests
  /\ LET id == art_searches_next_id_
         key == result.pixmap_cache_key_
         \* LoadImageAsync returns the loader's next id: it counts its requests.
         loader_id == next_loader_id
     IN /\ art_searches_next_id_' = NextArtId(art_searches_next_id_)
        /\ pending_art_searches_' = MapPut(pending_art_searches_, id, key)
        /\ cover_loader_tasks_' = MapPut(cover_loader_tasks_, loader_id, id)
        /\ next_loader_id' = next_loader_id + 1
        /\ loader_outstanding' = MapPut(loader_outstanding, loader_id, id)
        /\ returned_art_ids' = Append(returned_art_ids, id)
        /\ art_key' = MapPut(art_key, id, key)
        /\ art_overlap' = art_overlap \cup
             { <<a, id>> : a \in { b \in DOMAIN pending_art_searches_ :
                                     pending_art_searches_[b] = key } }
  /\ event' = Event("LoadArtAsync", TRUE)
  /\ emitted' = <<>>
  /\ UNCHANGED <<pixmap_cache_, art_loaded_count, last_loaded>>
  /\ UNCHANGED searchVars

\* A HandleLoadedArt that looks the key up under the wrong id and finds none.
TakeArtKeyNull(pending_art, id) == NullString

\* pending_art_searches_.take(id): the key, or a null QString.
TakeArtKey(pending_art, id) ==
  IF id \in DOMAIN pending_art THEN pending_art[id] ELSE NullString

\* A HandleLoadedArt that reads the key with value(id) and leaves the entry.
TakeArtKeeps(pending_art, id) == pending_art

\* The table after pending_art_searches_.take(id).
TakeArt(pending_art, id) == MapRemove(pending_art, id)

\* pixmap_cache_.insert(key, pixmap): the entry of key is stored or replaced.
CacheInsert(cache, key, pixmap) == MapPut(cache, key, pixmap)

\* pixmap_cache_.find(key, pixmap): whether key has an entry, and the entry.
CacheFind(cache, key) ==
  IF key \in DOMAIN cache
  THEN [found |-> TRUE, pixmap |-> cache[key]]
  ELSE [found |-> FALSE, pixmap |-> NullString]

\* bool FindCachedPixmap(result, pixmap)
FindCachedPixmap(result) == CacheFind(pixmap_cache_, result.pixmap_cache_key_)

\* The signals HandleLoadedArt(id, image) emits.
HandleLoadedArtSignals(id, image) ==
  << Signal("ArtLoaded", id, PixmapFromImage(image)) >>

\* The ArtLoaded signals for art id a among sigs.
CountArtLoaded(sigs, a) ==
  Cardinality({ i \in 1..Len(sigs) : sigs[i].sig = "ArtLoaded" /\ sigs[i].id = a })

HandleLoadedArt(id, image) ==
  LET key == TakeArtKey(pending_art_searches_, id)
      sigs == HandleLoadedArtSignals(id, image)
  IN /\ pending_art_searches_' = TakeArt(pending_art_searches_, id)
     /\ pixmap_cache_' = CacheInsert(pixmap_cache_, key, PixmapFromImage(image))
     /\ emitted' = sigs
     /\ art_loaded_count' =
          [a \in ArtIds |-> art_loaded_count[a] + CountArtLoaded(sigs, a)]
     /\ last_loaded' = IF id \in DOMAIN art_key
                       THEN MapPut(last_loaded, art_key[id], image)
                       ELSE last_loaded

\* An AlbumArtLoaded without the contains() test: take() of a loader id that
\* is not in the map returns 0.
AlbumArtLoadedUnchecked(id, image) ==
  /\ cover_loader_tasks_' = MapRemove(cover_loader_tasks_, id)
  /\ HandleLoadedArt(IF id \in DOMAIN cover_loader_tasks_
                     THEN cover_loader_tasks_[id] ELSE 0, image)
  /\ event' = Event("AlbumArtLoaded", id \in DOMAIN cover_loader_tasks_)
  /\ loader_outstanding' = MapRemove(loader_outstanding, id)
  /\ UNCHANGED <<art_searches_next_id_, next_loader_id, returned_art_ids, art_key,
                 art_overlap>>
  /\ UNCHANGED searchVars

AlbumArtLoaded(id, image) ==
  \/ /\ id \notin DOMAIN cover_loader_tasks_
     /\ event' = Event("AlbumArtLoaded", FALSE)
     /\ emitted' = <<>>
     /\ loader_outstanding' = MapRemove(loader_outstanding, id)
     /\ UNCHANGED <<art_searches_next_id_, pending_art_searches_, cover_loader_tasks_,
                    pixmap_cache_, next_loader_id, returned_art_ids, art_key,
                    art_overlap, art_loaded_count, last_loaded>>
     /\ UNCHANGED searchVars
  \/ /\ id \in DOMAIN cover_loader_tasks_
     /\ cover_loader_tasks_' = MapRemove(cover_loader_tasks_, id)
     /\ HandleLoadedArt(cover_loader_tasks_[id], image)
     /\ event' = Event("AlbumArtLoaded", TRUE)
     /\ loader_outstanding' = MapRemove(loader_outstanding, id)
     /\ UNCHANGED <<art_searches_next_id_, next_loader_id, returned_art_ids, art_key,
                    art_overlap>>
     /\ UNCHANGED searchVars

(***************************************************************************)
(* The art side of the object.                                             *)
(***************************************************************************)
ArtNext ==
  \/ \E result \in ArtResults : LoadArtAsync(result)
  \/ \E lid \in LoaderIds, image \in Images : AlbumArtLoaded(lid, image)

ArtSpec == Init /\ [][ArtNext]_vars

(***************************************************************************)
(* The properties.                                                         *)
(***************************************************************************)
\* The origins with a call at the service that has not been answered.
AwaitingReply(o) == \E sid \in DOMAIN outstanding : outstanding[sid] = o

\* The origins some PendingState of the table names.
HasPending(o) == \E sid \in DOMAIN pending_searches_ : pending_searches_[sid].orig_id_ = o

\* C1: for an origin whose requests all came while its timer was still
\* running, the service is called at most once, and with the query and
\* searchby of the last request scheduled under that origin.
C1_OnlyLastRequestDispatched ==
  \A o \in DOMAIN in_burst :
    in_burst[o] =>
      /\ Len(backend_calls[o]) <= 1
      /\ \A i \in 1..Len(backend_calls[o]) : backend_calls[o][i] = last_request[o]

\* C2: once CancelSearch(O) has removed a running timer of O, and while no
\* new request is scheduled under O, no step calls the service for O or
\* records a PendingState for O.
C2_CancelledNeverDispatched ==
  [][ \A o \in Origins :
        (o \in cancelled /\ o \in cancelled') =>
          /\ backend_calls'[o] = backend_calls[o]
          /\ (HasPending(o)' => HasPending(o)) ]_vars

\* C3: an origin that was sent to the service and has no call awaiting its
\* reply has had SearchFinished emitted, exactly once.
C3_FinishedOnceAllReplied ==
  \A o \in Origins :
    (backend_calls[o] # <<>> /\ ~AwaitingReply(o)) => finished_count[o] = 1

\* C4: when SearchFinished(O) is emitted, the table holds no PendingState
\* of O and no call made for O is still awaiting its reply.
C4_FinishedOnlyWhenNonePending ==
  \A i \in 1..Len(emitted) :
    emitted[i].sig = "SearchFinished" =>
      /\ ~HasPending(emitted[i].id)
      /\ ~AwaitingReply(emitted[i].id)

\* C4 happens: two calls were made for one origin, and SearchFinished came
\* once, with the reply to the second.
C4_Witness ==
  \E i \in 1..Len(emitted) :
    /\ emitted[i].sig = "SearchFinished"
    /\ emitted[i].id \in Origins
    /\ Len(backend_calls[emitted[i].id]) = 2
    /\ finished_count[emitted[i].id] = 1

\* C5: every service id in the table is one whose reply has not arrived
\* yet, so the table is empty once every call has been answered.
C5_NoStalePending ==
  DOMAIN pending_searches_ \subseteq DOMAIN outstanding

\* C6: the reply SearchError(c, e) to a call made for origin O emits
\* exactly one SearchError signal, and it carries O.
C6_ErrorKeyedByOrigin ==
  [][ \A sid \in DOMAIN outstanding : \A e \in Errors :
        HandleError(sid, e) =>
          emitted' = << Signal("SearchError", outstanding[sid], e) >> ]_vars

\* C7: a reply SearchResults(c, songs) for a c that is not in the table
\* leaves the table as it is and emits neither AddResults nor
\* SearchFinished.
C7_StaleReplyIgnored ==
  [][ \A sid \in ServiceIds : \A songs \in SmallSongLists :
        (sid \notin DOMAIN pending_searches_ /\ SearchDone(sid, songs)) =>
          /\ pending_searches_' = pending_searches_
          /\ \A i \in 1..Len(emitted') :
               emitted'[i].sig \notin {"AddResults", "SearchFinished"} ]_vars

\* C8: the ids SearchAsync returns are 1, 2, 3, ... in that order: the
\* first is 1, each is greater than the one before, none is returned twice.
C8_IdsStrictlyIncreasing ==
  /\ (returned_ids # <<>> => returned_ids[1] = 1)
  /\ \A i, j \in 1..Len(returned_ids) : i < j => returned_ids[i] < returned_ids[j]

\* C8 happens: a second id was returned after the first search was sent,
\* answered and finished.
C8_Witness ==
  /\ Len(returned_ids) = 2
  /\ finished_count[1] = 1
  /\ TimersOf(2) # {}

\* C9: a reply with N > 0 songs is followed by one AddResults batch of
\* min(N, kMaxResultsPerEmission) entries, entry i carrying the metadata of
\* raw result i.
C9_BatchIsBoundedPrefix ==
  \A i \in 1..Len(emitted) :
    (emitted[i].sig = "ResultsAvailable" /\ emitted[i].arg # <<>>) =>
      /\ i < Len(emitted)
      /\ emitted[i + 1].sig = "AddResults"
      /\ emitted[i + 1].id = emitted[i].id
      /\ Len(emitted[i + 1].arg) = Min(Len(emitted[i].arg), kMaxResultsPerEmission)
      /\ \A j \in 1..Len(emitted[i + 1].arg) :
           emitted[i + 1].arg[j].metadata_ = emitted[i].arg[j].metadata_
      /\ Cardinality({ k \in 1..Len(emitted) : emitted[k].sig = "AddResults" }) = 1

\* C9 happens: a reply of more than kMaxResultsPerEmission songs was cut.
C9_Witness ==
  \E i \in 1..Len(emitted) :
    /\ emitted[i].sig = "ResultsAvailable"
    /\ Len(emitted[i].arg) > kMaxResultsPerEmission
    /\ i < Len(emitted)
    /\ emitted[i + 1].sig = "AddResults"
    /\ Len(emitted[i + 1].arg) = kMaxResultsPerEmission

\* C10: two LoadArtAsync calls pending together under one cache key got
\* different ids, no id ever gets ArtLoaded twice, and once the loader has
\* answered both requests each id has had its ArtLoaded, once.
C10_EachArtIdLoadedOnce ==
  /\ \A a \in ArtIds : art_loaded_count[a] <= 1
  /\ \A p \in art_overlap :
       /\ p[1] # p[2]
       /\ (\A l \in DOMAIN loader_outstanding : loader_outstanding[l] \notin {p[1], p[2]})
            => (art_loaded_count[p[1]] = 1 /\ art_loaded_count[p[2]] = 1)

\* C10 happens: both requests of such a pair have been answered.
C10_Witness ==
  \E p \in art_overlap :
    /\ art_key[p[1]] = art_key[p[2]]
    /\ art_loaded_count[p[1]] = 1
    /\ art_loaded_count[p[2]] = 1

C14_UnknownLoaderIdIgnored ==
  [][ \A lid \in LoaderIds : \A image \in Images :
        (lid \notin DOMAIN cover_loader_tasks_ /\ AlbumArtLoaded(lid, image)) =>
          /\ UNCHANGED <<cover_loader_tasks_, pending_art_searches_, pixmap_cache_>>
          /\ emitted' = <<>> ]_vars

\* C14 happens: such a reply was handled while requests were pending.
C14_Witness ==
  /\ event = Event("AlbumArtLoaded", FALSE)
  /\ cover_loader_tasks_ # EmptyMap
  /\ pending_art_searches_ # EmptyMap

\* C18: every art id cover_loader_tasks_ maps to is a key of
\* pending_art_searches_, every key of pending_art_searches_ is the value of
\* exactly one loader id, and both tables are empty when no request awaits
\* its reply.
C18_ArtTablesConsistent ==
  /\ \A l \in DOMAIN cover_loader_tasks_ :
       cover_loader_tasks_[l] \in DOMAIN pending_art_searches_
  /\ \A a \in DOMAIN pending_art_searches_ :
       Cardinality({ l \in DOMAIN cover_loader_tasks_ : cover_loader_tasks_[l] = a }) = 1
  /\ (loader_outstanding = EmptyMap =>
        (cover_loader_tasks_ = EmptyMap /\ pending_art_searches_ = EmptyMap))

\* C18 happens: several requests were made and all have been answered.
C18_Witness ==
  /\ Len(returned_art_ids) >= 2
  /\ loader_outstanding = EmptyMap
  /\ \A a \in 1..Len(returned_art_ids) : art_loaded_count[a] = 1

\* C12: CancelSearch(O) for an O that has no running timer changes neither
\* delayed_searches_, pending_searches_ nor the art tables and emits
\* nothing, so a call made for O keeps its PendingState until its reply.
C12_CancelWithoutTimerIsNoOp ==
  [][ \A id \in Origins :
        (TimersOf(id) = {} /\ CancelSearch(id)) =>
          /\ UNCHANGED <<delayed_searches_, pending_searches_, outstanding,
                         pending_art_searches_, cover_loader_tasks_, pixmap_cache_>>
          /\ emitted' = <<>> ]_vars

\* C12 happens: CancelSearch ran for an id without a timer while every id
\* had a call awaiting its reply.
C12_Witness ==
  /\ event = Event("CancelSearch", FALSE)
  /\ \A o \in Origins : AwaitingReply(o) /\ HasPending(o)

\* C13: delayed_searches_ never holds two entries of one origin.
C13_OneTimerPerOrigin ==
  \A o \in Origins : Cardinality(TimersOf(o)) <= 1

\* C15: a reply with an empty song list emits no AddResults.
C15_EmptyReplyEmitsNoBatch ==
  \A i \in 1..Len(emitted) :
    (emitted[i].sig = "ResultsAvailable" /\ emitted[i].arg = <<>>) =>
      \A k \in 1..Len(emitted) : emitted[k].sig # "AddResults"

\* C15 happens: the empty reply to a call of this object was handled.
C15_Witness ==
  /\ event = Event("SearchDone", TRUE)
  /\ emitted # <<>>
  /\ emitted[1].sig = "ResultsAvailable"
  /\ emitted[1].arg = <<>>

\* C16: the PendingState recorded for a search of the empty query has no
\* tokens.
C16_EmptyQueryNoTokens ==
  \A sid \in DOMAIN pending_searches_ :
    LET o == pending_searches_[sid].orig_id_
    IN (o \in DOMAIN last_request /\ last_request[o][1] = <<>>) =>
         pending_searches_[sid].tokens_ = <<>>

\* C17: with every search a call of SearchAsync, the service is called at
\* most once per returned id, with that call's query and searchby, the
\* PendingState of each call awaiting its reply names that id and the
\* tokens of that query, and an id whose timer runs is in the end cancelled
\* or sent to the service.
C17_EachSearchDispatchedOnce ==
  /\ [](\A o \in Origins :
          /\ Len(backend_calls[o]) <= 1
          /\ \A i \in 1..Len(backend_calls[o]) : backend_calls[o][i] = last_request[o])
  /\ [](\A sid \in DOMAIN outstanding :
          /\ sid \in DOMAIN pending_searches_
          /\ pending_searches_[sid] =
               PendingState(outstanding[sid],
                            TokenizeQuery(last_request[outstanding[sid]][1])))
  /\ \A o \in Origins :
       (TimersOf(o) # {}) ~> (o \in cancelled \/ Len(backend_calls[o]) = 1)

\* C17 happens: two calls with different queries, each sent under its id.
C17_Witness ==
  /\ Len(returned_ids) = 2
  /\ backend_calls[1] = << last_request[1] >>
  /\ backend_calls[2] = << last_request[2] >>
  /\ last_request[1][1] # last_request[2][1]
  /\ cancelled = {}

\* C19: no AddResults, SearchFinished or SearchError signal carries the id
\* of a search that was cancelled while its timer ran.
C19_CancelledIsSilent ==
  \A i \in 1..Len(emitted) :
    emitted[i].sig \in {"AddResults", "SearchFinished", "SearchError"} =>
      emitted[i].id \notin cancelled

\* C20: the empty reply to the only call made for an origin emits
\* SearchFinished for that origin, and nothing else to the caller.
C20_EmptyReplyStillFinishes ==
  (/\ event = Event("SearchDone", TRUE)
   /\ emitted # <<>>
   /\ emitted[1].sig = "ResultsAvailable"
   /\ emitted[1].arg = <<>>
   /\ emitted[1].id \in Origins
   /\ Len(backend_calls[emitted[1].id]) = 1)
  => emitted = << emitted[1], Signal("SearchFinished", emitted[1].id, <<>>) >>

\* C20 happens: such a reply was handled and the search finished.
C20_Witness ==
  \E o \in Origins :
    /\ Len(backend_calls[o]) = 1
    /\ finished_count[o] = 1
    /\ emitted = << Signal("ResultsAvailable", o, <<>>),
                    Signal("SearchFinished", o, <<>>) >>

====
